---- MODULE Spec2Model ----
(***************************************************************************)
(* A model of vrs (src/vrs/vrs.go): the version file vrs.yml, the bump of  *)
(* its minor component, the rewriting of sync targets and the git          *)
(* add/commit/tag/push sequence around them.                               *)
(*                                                                         *)
(* Go strings are modelled as sequences of one-character strings, so that  *)
(* splitting, parsing, formatting and replacing are computed and not       *)
(* assumed.  File names and profile names are never taken apart by the     *)
(* program and are modelled as TLA+ strings.                               *)
(***************************************************************************)
EXTENDS Integers, Sequences, FiniteSets, TLC

VARIABLES
    cfgFile,     \* the file vrs.yml of the base directory
    files,       \* the other files of the base directory, by name
    head,        \* git: the tree of the current commit, by path
    index,       \* git: the staging area, by path
    tags,        \* git: the names of the existing tags
    pc,          \* where the running operation stands ("idle": none runs)
    op,          \* the options of the running (or last) operation
    config,      \* the *VrsConfig the running operation holds in memory
    oldVersion,  \* Bump's local oldVersion
    ti,          \* Bump: the number of the sync target being processed
    result,      \* what the last operation returned
    log,         \* the external effects of the running (or last) operation
    start,       \* the disk and the repository as the operation found them
    hist,        \* of the operations completed so far: how many, how many
                 \* failed by their environment, how many were Bumps that
                 \* returned nil, and what the one before the last returned
    disk0        \* the file vrs.yml as it was before the first operation

vars == <<cfgFile, files, head, index, tags, pc, op, config, oldVersion, ti,
          result, log, start, hist, disk0>>

-----------------------------------------------------------------------------
(* Bounds of the model. *)

\* operations (Init, Bump, ReadCurrentVersion) called in one behaviour
MaxOps == 3

\* failures of the environment (disk, git) in one behaviour
MaxEnvFailures == 1

\* characters of a text, where every text is tried
MaxTextLen == 6

-----------------------------------------------------------------------------
(* Strings. *)

Digits == <<"0", "1", "2", "3", "4", "5", "6", "7", "8", "9">>

IsDigit(c) == \E d \in 1..10 : Digits[d] = c

DigitVal(c) == (CHOOSE d \in 1..10 : Digits[d] = c) - 1

\* s[i:] of Go, for a 1-based i
From(s, i) == SubSeq(s, i, Len(s))

\* strings.HasPrefix(s[i-1:], t)
HasPrefixAt(s, i, t) ==
    /\ i + Len(t) - 1 <= Len(s)
    /\ SubSeq(s, i, i + Len(t) - 1) = t

\* strings.Index(s, t), 1-based, 0 when t does not occur in s
StrIndex(s, t) ==
    IF \E i \in 1..(Len(s) + 1) : HasPrefixAt(s, i, t)
    THEN CHOOSE i \in 1..(Len(s) + 1) :
            /\ HasPrefixAt(s, i, t)
            /\ \A j \in 1..(i - 1) : ~HasPrefixAt(s, j, t)
    ELSE 0

\* strings.Contains(s, t)
Contains(s, t) == StrIndex(s, t) # 0

\* strings.Split(s, sep) for a non-empty sep
RECURSIVE Split(_, _)
Split(s, sep) ==
    LET i == StrIndex(s, sep)
    IN  IF i = 0 THEN <<s>>
        ELSE <<SubSeq(s, 1, i - 1)>> \o Split(From(s, i + Len(sep)), sep)

\* strings.Replace(s, old, new, n) for a non-empty old; n < 0: no limit
RECURSIVE Replace(_, _, _, _)
Replace(s, old, new, n) ==
    LET j == StrIndex(s, old)
    IN  IF j = 0 \/ n = 0 THEN s
        ELSE SubSeq(s, 1, j - 1) \o new
                \o Replace(From(s, j + Len(old)), old, new, n - 1)

\* a slip: only the first occurrence is replaced
ReplaceFirstOnly(s, old, new) == Replace(s, old, new, 1)

\* a slip: the string that strings.ReplaceAll returns is dropped
ReplaceNothing(s, old, new) == s

\* strings.ReplaceAll(s, old, new)
ReplaceAll(s, old, new) == Replace(s, old, new, -1)

RECURSIVE AtoiDigits(_, _)
AtoiDigits(s, n) ==
    IF s = <<>> THEN [ok |-> TRUE, val |-> n]
    ELSE IF ~IsDigit(Head(s)) THEN [ok |-> FALSE, val |-> 0]
    ELSE AtoiDigits(Tail(s), n * 10 + DigitVal(Head(s)))

\* a slip: like C's atoi, text that is no number reads as 0
AtoiLenient(s) ==
    LET r == IF s # <<>> /\ Head(s) \in {"-", "+"}
             THEN AtoiDigits(Tail(s), 0) ELSE AtoiDigits(s, 0)
    IN  [ok |-> TRUE, val |-> IF r.ok THEN r.val ELSE 0]

\* strconv.Atoi(s): an optional sign, then one digit or more
Atoi(s) ==
    IF s = <<>> THEN [ok |-> FALSE, val |-> 0]
    ELSE IF Head(s) \in {"-", "+"}
    THEN IF Tail(s) = <<>> THEN [ok |-> FALSE, val |-> 0]
         ELSE LET r == AtoiDigits(Tail(s), 0)
              IN  [ok |-> r.ok,
                   val |-> IF r.ok /\ Head(s) = "-" THEN 0 - r.val ELSE r.val]
    ELSE AtoiDigits(s, 0)

\* the verb %d of fmt.Sprintf
RECURSIVE Itoa(_)
Itoa(n) ==
    IF n < 0 THEN <<"-">> \o Itoa(0 - n)
    ELSE IF n < 10 THEN <<Digits[n + 1]>>
    ELSE Itoa(n \div 10) \o <<Digits[(n % 10) + 1]>>

-----------------------------------------------------------------------------
(* Regular expressions (package regexp), for the patterns made of literal  *)
(* characters, the escapes \d and \<punctuation>, the dot and a postfix +. *)
(* A compiled pattern is a sequence of atoms [kind, ch, plus].  The other   *)
(* operators of the syntax (star, question mark, bar, anchors, brackets)   *)
(* are written escaped in the patterns of this model, never bare.          *)

PatternPunct == {".", "+", "\\", "$", "*", "?", "(", ")", "[", "]", "{", "}", "|", "^"}

RECURSIVE ParseAtoms(_, _)
ParseAtoms(p, acc) ==
    IF p = <<>> THEN [ok |-> TRUE, prog |-> acc]
    ELSE IF Head(p) = "\\"
    THEN IF Len(p) < 2 THEN [ok |-> FALSE, prog |-> <<>>]   \* trailing backslash
         ELSE IF p[2] = "d"
         THEN ParseAtoms(From(p, 3),
                  Append(acc, [kind |-> "digit", ch |-> "", plus |-> FALSE]))
         ELSE IF p[2] \in PatternPunct
         THEN ParseAtoms(From(p, 3),
                  Append(acc, [kind |-> "lit", ch |-> p[2], plus |-> FALSE]))
         ELSE [ok |-> FALSE, prog |-> <<>>]                  \* invalid escape
    ELSE IF Head(p) = "+"
    THEN IF acc = <<>> \/ acc[Len(acc)].plus
         THEN [ok |-> FALSE, prog |-> <<>>]   \* missing argument, or nested
         ELSE ParseAtoms(Tail(p),
                  [acc EXCEPT ![Len(acc)].plus = TRUE])
    ELSE IF Head(p) = "."
    THEN ParseAtoms(Tail(p), Append(acc, [kind |-> "any", ch |-> "", plus |-> FALSE]))
    ELSE ParseAtoms(Tail(p), Append(acc, [kind |-> "lit", ch |-> Head(p), plus |-> FALSE]))

\* regexp.Compile(expr)
Compile(expr) == ParseAtoms(expr, <<>>)

Accepts(atom, c) ==
    CASE atom.kind = "digit" -> IsDigit(c)
      [] atom.kind = "any"   -> c # "\n"
      [] OTHER               -> c = atom.ch

\* the number of characters from s[i] on that the atom accepts
RECURSIVE Run(_, _, _)
Run(atom, s, i) ==
    IF i <= Len(s) /\ Accepts(atom, s[i]) THEN 1 + Run(atom, s, i + 1) ELSE 0

\* The match of prog[k..] that starts at s[i], as the position after its
\* last character; 0 when there is none.  A + is greedy: the longest run
\* the rest of the pattern can follow.
RECURSIVE MatchHere(_, _, _, _)
MatchHere(prog, k, s, i) ==
    IF k > Len(prog) THEN i
    ELSE IF ~prog[k].plus
    THEN IF i <= Len(s) /\ Accepts(prog[k], s[i])
         THEN MatchHere(prog, k + 1, s, i + 1) ELSE 0
    ELSE LET fits == {n \in 1..Run(prog[k], s, i) :
                          MatchHere(prog, k + 1, s, i + n) # 0}
         IN  IF fits = {} THEN 0
             ELSE MatchHere(prog, k + 1, s,
                            i + (CHOOSE n \in fits : \A x \in fits : x <= n))

\* the start of the leftmost match at or after s[i]; 0 when there is none
FindFrom(prog, s, i) ==
    LET hits == {j \in i..(Len(s) + 1) : MatchHere(prog, 1, s, j) # 0}
    IN  IF hits = {} THEN 0 ELSE CHOOSE j \in hits : \A x \in hits : j <= x

Letters == {"a", "b", "c", "d", "e", "f", "g", "h", "i", "j", "k", "l", "m",
            "n", "o", "p", "q", "r", "s", "t", "u", "v", "w", "x", "y", "z",
            "A", "B", "C", "D", "E", "F", "G", "H", "I", "J", "K", "L", "M",
            "N", "O", "P", "Q", "R", "S", "T", "U", "V", "W", "X", "Y", "Z"}

IsNameChar(c) == c \in Letters \/ IsDigit(c) \/ c = "_"

RECURSIVE NameLen(_)
NameLen(s) == IF s # <<>> /\ IsNameChar(Head(s)) THEN 1 + NameLen(Tail(s)) ELSE 0

\* regexp's extract(str): the variable name after a $ and what follows it
Extract(str) ==
    LET brace == str # <<>> /\ Head(str) = "{"
        body  == IF brace THEN Tail(str) ELSE str
        n     == NameLen(body)
    IN  IF n = 0 THEN [ok |-> FALSE, name |-> <<>>, rest |-> str]
        ELSE IF brace /\ (n >= Len(body) \/ body[n + 1] # "}")
        THEN [ok |-> FALSE, name |-> <<>>, rest |-> str]
        ELSE [ok |-> TRUE, name |-> SubSeq(body, 1, n),
              rest |-> From(body, IF brace THEN n + 2 ELSE n + 1)]

\* regexp's expand(template, match) for a pattern without capture groups:
\* $0 and ${0} are the match, every other variable is empty, $$ is a $
RECURSIVE Expand(_, _)
Expand(template, m) ==
    LET d == StrIndex(template, <<"$">>)
    IN  IF d = 0 THEN template
        ELSE LET before == SubSeq(template, 1, d - 1)
                 after  == From(template, d + 1)
             IN  IF after # <<>> /\ Head(after) = "$"
                 THEN before \o <<"$">> \o Expand(Tail(after), m)
                 ELSE LET e == Extract(after)
                      IN  IF ~e.ok THEN before \o <<"$">> \o Expand(after, m)
                          ELSE before \o (IF e.name = <<"0">> THEN m ELSE <<>>)
                                  \o Expand(e.rest, m)

RECURSIVE ReplaceFrom(_, _, _, _)
ReplaceFrom(prog, s, i, repl) ==
    LET j == FindFrom(prog, s, i)
    IN  IF j = 0 THEN From(s, i)
        ELSE LET e == MatchHere(prog, 1, s, j)
             IN  IF e > j
                 THEN SubSeq(s, i, j - 1) \o Expand(repl, SubSeq(s, j, e - 1))
                         \o ReplaceFrom(prog, s, e, repl)
                 ELSE \* an empty match: the template, then one character on
                      SubSeq(s, i, j - 1) \o Expand(repl, <<>>)
                         \o (IF j <= Len(s)
                             THEN <<s[j]>> \o ReplaceFrom(prog, s, j + 1, repl)
                             ELSE <<>>)

\* a slip: the text of the match up to its first digit is kept
RECURSIVE ReplaceKeepingPrefix(_, _, _)
ReplaceKeepingPrefix(prog, s, repl) ==
    LET j == FindFrom(prog, s, 1)
    IN  IF j = 0 THEN s
        ELSE LET e  == MatchHere(prog, 1, s, j)
                 ds == {x \in j..(e - 1) : IsDigit(s[x])}
                 k  == IF ds = {} THEN e ELSE CHOOSE x \in ds : \A y \in ds : x <= y
             IN  SubSeq(s, 1, k - 1) \o repl
                    \o ReplaceKeepingPrefix(prog, From(s, IF e > j THEN e ELSE e + 1), repl)

\* (*Regexp).ReplaceAllString(src, repl)
ReplaceAllString(prog, src, repl) == ReplaceFrom(prog, src, 1, repl)

-----------------------------------------------------------------------------------------------------------------------------------------------------
(* The data model (vrs.go, VrsConfig to Profile) and its YAML document.    *)
(* A Go pointer is a sequence of no element (nil) or one.  A Go slice is   *)
(* [nil, items]: nil or not, and its elements.  A document is what         *)
(* yaml.Marshal writes and yaml.Unmarshal reads: a key that is left out is *)
(* an empty sequence, a key that is written holds one value.               *)

VrsConfigFileName == "vrs.yml"

NoVersioonFileFound == "no vrs file found"

NilSlice == [nil |-> TRUE, items |-> <<>>]

Slice(items) == [nil |-> FALSE, items |-> items]

SyncFile(name, pattern) == [Name |-> name, Pattern |-> pattern]

Sync(fs) == [Files |-> fs]

Profile(name, sync) == [Name |-> name, Sync |-> sync]

VrsConfig(version, sync, profiles) ==
    [Version |-> version, Sync |-> sync, Profiles |-> profiles]

\* the zero value &VrsConfig{} that ParseVersioonConfig unmarshals into
ZeroConfig == VrsConfig(<<>>, <<>>, NilSlice)

\* a Sync: its Files are always written, a nil slice as a list of nothing
MarshalSync(sync) ==
    [files |-> <<[i \in 1..Len(sync.Files.items) |->
                    [name    |-> sync.Files.items[i].Name,
                     pattern |-> sync.Files.items[i].Pattern]]>>]

\* Profile.Sync has no omitempty: a nil pointer is written as null
MarshalProfile(p) ==
    [name |-> p.Name,
     sync |-> IF p.Sync = <<>> THEN <<>> ELSE <<MarshalSync(p.Sync[1])>>]

\* a slip: omitempty taken to drop a Sync whose file list is empty as well
MarshalDroppingEmptySync(c) ==
    [malformed |-> FALSE,
     version   |-> <<c.Version>>,
     sync      |-> IF c.Sync = <<>> \/ c.Sync[1].Files.items = <<>>
                   THEN <<>> ELSE <<MarshalSync(c.Sync[1])>>,
     profiles  |-> IF c.Profiles.items = <<>> THEN <<>>
                   ELSE <<[i \in 1..Len(c.Profiles.items) |->
                             MarshalProfile(c.Profiles.items[i])]>>]

\* yaml.Marshal(config): Sync and Profiles are omitempty, a nil pointer
\* and a slice without elements (nil or not) are left out
Marshal(c) ==
    [malformed |-> FALSE,
     version   |-> <<c.Version>>,
     sync      |-> IF c.Sync = <<>> THEN <<>> ELSE <<MarshalSync(c.Sync[1])>>,
     profiles  |-> IF c.Profiles.items = <<>> THEN <<>>
                   ELSE <<[i \in 1..Len(c.Profiles.items) |->
                             MarshalProfile(c.Profiles.items[i])]>>]

\* a list of the document makes a slice that is not nil, also when it has
\* no element; a key that is left out leaves the slice nil
UnmarshalSync(node) ==
    Sync(IF node.files = <<>> THEN NilSlice
         ELSE Slice([i \in 1..Len(node.files[1]) |->
                        SyncFile(node.files[1][i].name, node.files[1][i].pattern)]))

UnmarshalProfile(node) ==
    Profile(node.name,
            IF node.sync = <<>> THEN <<>> ELSE <<UnmarshalSync(node.sync[1])>>)

\* yaml.Unmarshal(yml, config) into the zero value: a key the document
\* does not hold leaves its field as it was
Unmarshal(doc) ==
    IF doc.malformed THEN [err |-> "yaml: malformed document", config |-> ZeroConfig]
    ELSE [err |-> "nil",
          config |->
            VrsConfig(IF doc.version = <<>> THEN ZeroConfig.Version ELSE doc.version[1],
                      IF doc.sync = <<>> THEN ZeroConfig.Sync
                      ELSE <<UnmarshalSync(doc.sync[1])>>,
                      IF doc.profiles = <<>> THEN ZeroConfig.Profiles
                      ELSE Slice([i \in 1..Len(doc.profiles[1]) |->
                                     UnmarshalProfile(doc.profiles[1][i])]))]

\* a document without a key: what a file of no bytes parses to
EmptyDoc == [malformed |-> FALSE, version |-> <<>>, sync |-> <<>>, profiles |-> <<>>]

MalformedDoc == [EmptyDoc EXCEPT !.malformed = TRUE]

-----
(* The filesystem: a file is [exists, data].                               *)

NoConfigFile == [exists |-> FALSE, data |-> EmptyDoc]

ConfigFile(doc) == [exists |-> TRUE, data |-> doc]

NoFile == [exists |-> FALSE, data |-> <<>>]

File(text) == [exists |-> TRUE, data |-> text]

\* a slip: a missing file is left to os.ReadFile and its generic error
ParseWithoutSentinel(f) ==
    IF ~f.exists
    THEN [err |-> "open vrs.yml: no such file or directory", config |-> ZeroConfig]
    ELSE Unmarshal(f.data)

\* ParseVersioonConfig(basePath), of the file f that basePath/vrs.yml is
ParseVersioonConfig(f) ==
    IF ~f.exists THEN [err |-> NoVersioonFileFound, config |-> ZeroConfig]
    ELSE Unmarshal(f.data)

-----------------------------------------------------------------------------
(* Bump's computation of the new version and of its sync targets.          *)

Dot == <<".">>

\* a slip: the patch component is the one that is incremented
BumpVersionPatch(old) ==
    LET versionParts == Split(old, Dot)
    IN  IF Len(versionParts) < 3
        THEN [err |-> "panic: index out of range", version |-> old]
        ELSE LET patch == Atoi(versionParts[3])
             IN  IF ~patch.ok
                 THEN [err |-> "strconv.Atoi: invalid syntax", version |-> old]
                 ELSE [err |-> "nil",
                       version |-> versionParts[1] \o Dot \o versionParts[2]
                                      \o Dot \o Itoa(patch.val + 1)]

\* Bump, from strings.Split to fmt.Sprintf: versionParts[1] and
\* versionParts[2] are read without a check of len(versionParts)
BumpVersion(old) ==
    LET versionParts == Split(old, Dot)
    IN  IF Len(versionParts) < 2
        THEN [err |-> "panic: index out of range", version |-> old]
        ELSE LET minorVersion == Atoi(versionParts[2])
             IN  IF ~minorVersion.ok
                 THEN [err |-> "strconv.Atoi: invalid syntax", version |-> old]
                 ELSE IF Len(versionParts) < 3
                 THEN [err |-> "panic: index out of range", version |-> old]
                 ELSE [err |-> "nil",
                       version |-> versionParts[1] \o Dot
                                      \o Itoa(minorVersion.val + 1)
                                      \o Dot \o versionParts[3]]

SyncFiles(sync) == IF sync = <<>> THEN <<>> ELSE sync[1].Files.items

\* the inner loop over options.ActiveProfiles, left at the first match
IsActive(profile, activeProfiles) ==
    \E k \in 1..Len(activeProfiles) : activeProfiles[k] = profile.Name

RECURSIVE ProfileTargets(_, _)
ProfileTargets(profiles, activeProfiles) ==
    IF profiles = <<>> THEN <<>>
    ELSE (IF IsActive(Head(profiles), activeProfiles)
          THEN SyncFiles(Head(profiles).Sync) ELSE <<>>)
            \o ProfileTargets(Tail(profiles), activeProfiles)

\* a slip: the two loops over the profiles the other way round, the active
\* names outside, and no break
RECURSIVE TargetsByActive(_, _)
TargetsByActive(profiles, activeProfiles) ==
    IF activeProfiles = <<>> THEN <<>>
    ELSE ProfileTargets(profiles, <<Head(activeProfiles)>>)
            \o TargetsByActive(profiles, Tail(activeProfiles))

TargetsLoopsSwapped(c, activeProfiles) ==
    SyncFiles(c.Sync) \o TargetsByActive(c.Profiles.items, activeProfiles)

\* the files Bump's loops hand to bumpInFile, in their order: those of
\* config.Sync, then those of each profile that is active
Targets(c, activeProfiles) ==
    SyncFiles(c.Sync) \o ProfileTargets(c.Profiles.items, activeProfiles)

\* bumpInFile's choice between strings.ReplaceAll and the pattern
Substitute(text, oldV, oldExpression, newVersion) ==
    IF oldV # <<>>
    THEN [err |-> "nil", text |-> ReplaceAll(text, oldV, newVersion)]
    ELSE LET r == Compile(oldExpression)
         IN  IF ~r.ok THEN [err |-> "error parsing regexp", text |-> <<>>]
             ELSE [err |-> "nil",
                   text |-> ReplaceAllString(r.prog, text, newVersion)]

\* a slip: the two versions handed to bumpInFile in the other order
SubstituteForSwapped(file, text, oldV, newVersion) ==
    IF file.Pattern = <<>>
    THEN Substitute(text, newVersion, <<>>, oldV)
    ELSE Substitute(text, <<>>, file.Pattern, oldV)

\* Bump's two calls of bumpInFile: the old version for a file without a
\* pattern, the pattern alone for a file with one
SubstituteFor(file, text, oldV, newVersion) ==
    IF file.Pattern = <<>>
    THEN Substitute(text, oldV, <<>>, newVersion)
    ELSE Substitute(text, <<>>, file.Pattern, newVersion)

-----------------------------------------------------------------------------
(* The directories the model starts from.                                  *)

V000 == <<"0", ".", "0", ".", "0">>
V010 == <<"0", ".", "1", ".", "0">>
V29b == <<"2", ".", "9", ".", "b">>
V1x0 == <<"1", ".", "x", ".", "0">>
VOnePart == <<"1">>
VTwoParts == <<"1", ".", "2">>
TextTwice == <<"v", "0", ".", "1", ".", "0", " ", "0", ".", "1", ".", "0">>
TextOverlap == <<"0", ".", "1", ".", "0", ".", "1", ".", "0">>
TextNone == <<"h", "i">>
TextGo == <<"v", "e", "r", "s", "i", "o", "n", ":", " ", "1", ".", "2", ".", "3">>
PatVersion == <<"v", "e", "r", "s", "i", "o", "n", ":", " ", "\\", "d", "+", "\\", ".", "\\", "d", "+", "\\", ".", "\\", "d", "+">>

FileNames == {"README.md", "version.go"}

Paths == {VrsConfigFileName} \cup FileNames

NoTargets == VrsConfig(<<>>, <<>>, NilSlice)

\* a pattern that regexp.Compile rejects: missing argument to repetition
\* operator
PatBad == <<"+">>

\* README.md, then version.go with the pattern that does not compile, then
\* README.md once more in the profile p, with the pattern v
WithBadPattern ==
    VrsConfig(<<>>,
              <<Sync(Slice(<<SyncFile("README.md", <<>>),
                             SyncFile("version.go", PatBad)>>))>>,
              Slice(<<Profile("p", <<Sync(Slice(<<SyncFile("README.md", <<"v">>)>>))>>)>>))

\* README.md by the old version, version.go by a pattern, and under the
\* profile p version.go by the old version
WithTargets ==
    VrsConfig(<<>>,
              <<Sync(Slice(<<SyncFile("README.md", <<>>),
                             SyncFile("version.go", PatVersion)>>))>>,
              Slice(<<Profile("p", <<Sync(Slice(<<SyncFile("version.go", <<>>)>>))>>)>>))

ValidVersions == {V010, V29b}

InvalidVersions == {V1x0, VOnePart, VTwoParts, <<>>}

InitReadmes == {NoFile, File(TextTwice), File(TextOverlap), File(TextNone)}

\* a directory: the version file of config c at version v, README.md,
\* version.go, and whether everything is committed or nothing is yet
Dir(c, v, readme, go, committed) ==
    [cfgFile |-> ConfigFile(Marshal([c EXCEPT !.Version = v])),
     files |-> [f \in FileNames |-> IF f = "README.md" THEN readme ELSE go],
     committed |-> committed]

\* Version 0.1.0 with the targets and every README.md, or without targets;
\* version 2.9.b with the targets; each with everything committed or with
\* no commit yet.  Version 0.1.0 with a pattern that does not compile.
\* And no version file, a malformed one, or one whose version Bump cannot
\* bump.  These in a directory with everything committed.
InitDirs ==
    {Dir(WithTargets, V010, r, File(TextGo), g) : r \in InitReadmes, g \in BOOLEAN}
      \cup {Dir(NoTargets, V010, File(TextNone), File(TextGo), g) : g \in BOOLEAN}
      \cup {Dir(WithTargets, V29b, File(TextTwice), File(TextGo), g) : g \in BOOLEAN}
      \cup {Dir(WithBadPattern, V010, File(TextTwice), File(TextGo), TRUE)}
      \cup {Dir(WithTargets, v, File(TextTwice), File(TextGo), TRUE) :
               v \in InvalidVersions}
      \cup {[Dir(NoTargets, V010, File(TextTwice), File(TextGo), TRUE)
                EXCEPT !.cfgFile = f] :
               f \in {NoConfigFile, ConfigFile(MalformedDoc)}}

\* The options of a call.  Without GitCommit the code never reads GitPush:
\* the calls without GitCommit are made with GitPush set.
InitOptions == {[commit |-> TRUE, push |-> TRUE], [commit |-> FALSE, push |-> TRUE]}

\* Bump with commits and pushes, with commits alone and the profile p, and
\* without commits
BumpOptions ==
    {[commit |-> TRUE, push |-> TRUE, active |-> <<>>],
     [commit |-> TRUE, push |-> FALSE, active |-> <<"p">>],
     [commit |-> FALSE, push |-> TRUE, active |-> <<>>]}

ActiveProfileLists == {<<>>, <<"p">>}

\* the file at a path of the base directory
WorkTree(path) == IF path = VrsConfigFileName THEN cfgFile ELSE files[path]

Absent(path) == IF path = VrsConfigFileName THEN NoConfigFile ELSE NoFile

NoCall == [name |-> "none", commit |-> FALSE, push |-> FALSE,
           active |-> <<>>, message |-> ""]

\* what an operation returned: the error ("nil": none), the version that
\* ReadCurrentVersion returned, and what made the failing step fail
NoResult == [name |-> "none", err |-> "nil", value |-> <<>>, cause |-> ""]

Snapshot == [cfgFile |-> cfgFile, files |-> files, head |-> head, tags |-> tags]

\* no operation has run yet in the directory d
StartIn(d) ==
    /\ cfgFile = d.cfgFile
    /\ files = d.files
    /\ head = [p \in Paths |-> IF d.committed THEN WorkTree(p) ELSE Absent(p)]
    /\ index = head
    /\ tags = {}
    /\ pc = "idle"
    /\ op = NoCall
    /\ config = ZeroConfig
    /\ oldVersion = <<>>
    /\ ti = 0
    /\ result = NoResult
    /\ log = <<>>
    /\ start = Snapshot
    /\ hist = [calls |-> 0, envFailures |-> 0, bumps |-> 0, prev |-> NoResult,
               reinit |-> FALSE]
    /\ disk0 = cfgFile

Init == \E d \in InitDirs : StartIn(d)

-----
(* Control: returning to the caller, and going on.                         *)

Event(cmd, a, text, exit) == [cmd |-> cmd, arg |-> a, text |-> text, exit |-> exit]

Return(name, err, value, cause) ==
    LET r == [name |-> name, err |-> err, value |-> value, cause |-> cause]
    IN  /\ pc' = "idle"
        /\ result' = r
        /\ hist' = [calls       |-> hist.calls + 1,
                    envFailures |-> hist.envFailures
                                      + (IF cause = "environment" THEN 1 ELSE 0),
                    bumps       |-> hist.bumps
                                      + (IF name = "Bump" /\ err = "nil" THEN 1 ELSE 0),
                    prev        |-> result,
                    reinit      |-> hist.reinit \/ (name = "Init" /\ hist.calls >= 1)]

Goto(label) ==
    /\ pc' = label
    /\ UNCHANGED <<result, hist>>

\* WriteAndCommit has returned nil: Init returns, Bump goes to its targets
AfterWriteAndCommit ==
    IF op.name = "Bump" /\ Targets(config, op.active) # <<>>
    THEN Goto("bif_rewrite") /\ ti' = 1
    ELSE Return(op.name, "nil", <<>>, "") /\ ti' = ti

\* a slip: the pushes run once more when the last target is done
AfterBumpInFilePushing ==
    IF ti < Len(Targets(config, op.active))
    THEN Goto("bif_rewrite") /\ ti' = ti + 1
    ELSE IF op.commit /\ op.push
    THEN Goto("wac_push") /\ ti' = ti
    ELSE Return(op.name, "nil", <<>>, "") /\ ti' = ti

\* bumpInFile has returned nil: the next target, or Bump returns nil
AfterBumpInFile ==
    IF ti < Len(Targets(config, op.active))
    THEN Goto("bif_rewrite") /\ ti' = ti + 1
    ELSE Return(op.name, "nil", <<>>, "") /\ ti' = ti

\* An external step can meet a failure of its environment (a full disk, a
\* missing remote, a hook that refuses): at most MaxEnvFailures times in
\* one behaviour.
Outcomes == IF hist.envFailures < MaxEnvFailures THEN {"ok", "failed"} ELSE {"ok"}

-----------------------------------------------------------------------------
(* The operations.                                                         *)

\* a slip: Init leaves a version file that exists as it is
InitCallGuarded(commit, push) ==
    /\ pc = "idle"
    /\ hist.calls < MaxOps
    /\ op' = [name |-> "Init", commit |-> commit, push |-> push, active |-> <<>>,
              message |-> "Initialized versioon file."]
    /\ config' = VrsConfig(V000, <<>>, NilSlice)
    /\ start' = Snapshot
    /\ log' = <<>>
    /\ IF cfgFile.exists THEN Return("Init", "nil", <<>>, "") ELSE Goto("wac_write")
    /\ ti' = 0
    /\ UNCHANGED <<cfgFile, files, head, index, tags, oldVersion, disk0>>

\* Init(options): WriteAndCommit of &VrsConfig{Version: "0.0.0"}
InitCall(commit, push) ==
    /\ pc = "idle"
    /\ hist.calls < MaxOps
    /\ op' = [name |-> "Init", commit |-> commit, push |-> push, active |-> <<>>,
              message |-> "Initialized versioon file."]
    /\ config' = VrsConfig(V000, <<>>, NilSlice)
    /\ start' = Snapshot
    /\ log' = <<>>
    /\ Goto("wac_write")
    /\ ti' = 0
    /\ UNCHANGED <<cfgFile, files, head, index, tags, oldVersion, disk0>>

\* Bump(options), up to its call of WriteAndCommit
BumpCall(commit, push, activeProfiles) ==
    /\ pc = "idle"
    /\ hist.calls < MaxOps
    /\ op' = [name |-> "Bump", commit |-> commit, push |-> push,
              active |-> activeProfiles, message |-> "Version bump."]
    /\ start' = Snapshot
    /\ log' = <<>>
    /\ LET parsed == ParseVersioonConfig(cfgFile)
           bumped == BumpVersion(parsed.config.Version)
       IN  IF parsed.err # "nil"
           THEN /\ Return("Bump", parsed.err, <<>>, "config")
                /\ UNCHANGED <<config, oldVersion>>
           ELSE IF bumped.err # "nil"
           THEN /\ Return("Bump", bumped.err, <<>>, "version")
                /\ config' = parsed.config
                /\ oldVersion' = parsed.config.Version
           ELSE /\ Goto("wac_write")
                /\ config' = [parsed.config EXCEPT !.Version = bumped.version]
                /\ oldVersion' = parsed.config.Version
    /\ ti' = 0
    /\ UNCHANGED <<cfgFile, files, head, index, tags, disk0>>

\* ReadCurrentVersion(options)
ReadCurrentVersion ==
    /\ pc = "idle"
    /\ hist.calls < MaxOps
    /\ op' = [NoCall EXCEPT !.name = "ReadCurrentVersion"]
    /\ start' = Snapshot
    /\ log' = <<>>
    /\ LET parsed == ParseVersioonConfig(cfgFile)
       IN  IF parsed.err # "nil"
           THEN Return("ReadCurrentVersion", parsed.err, <<>>, "config")
           ELSE Return("ReadCurrentVersion", "nil", parsed.config.Version, "")
    /\ ti' = 0
    /\ UNCHANGED <<cfgFile, files, head, index, tags, config, oldVersion, disk0>>

\* a slip: the commands of git are run for GitPush as well as for GitCommit
WacWriteThenGit ==
    /\ pc = "wac_write"
    /\ \E out \in Outcomes :
          IF out = "ok"
          THEN /\ cfgFile' = ConfigFile(Marshal(config))
               /\ log' = Append(log, Event("write", VrsConfigFileName, <<>>, "ok"))
               /\ IF op.commit \/ op.push THEN Goto("wac_add") /\ ti' = ti
                  ELSE AfterWriteAndCommit
          ELSE /\ \E left \in {cfgFile, ConfigFile(EmptyDoc)} : cfgFile' = left
               /\ log' = Append(log, Event("write", VrsConfigFileName, <<>>, "failed"))
               /\ Return(op.name, "write vrs.yml failed", <<>>, "environment")
               /\ ti' = ti
    /\ UNCHANGED <<files, head, index, tags, op, config, oldVersion, start, disk0>>

\* config.Write(baseDir), and WriteAndCommit's return when commit is false.
\* A write that fails leaves the file as it was or cut to no bytes.
WacWrite ==
    /\ pc = "wac_write"
    /\ \E out \in Outcomes :
          IF out = "ok"
          THEN /\ cfgFile' = ConfigFile(Marshal(config))
               /\ log' = Append(log, Event("write", VrsConfigFileName, <<>>, "ok"))
               /\ IF op.commit THEN Goto("wac_add") /\ ti' = ti
                  ELSE AfterWriteAndCommit
          ELSE /\ \E left \in {cfgFile, ConfigFile(EmptyDoc)} : cfgFile' = left
               /\ log' = Append(log, Event("write", VrsConfigFileName, <<>>, "failed"))
               /\ Return(op.name, "write vrs.yml failed", <<>>, "environment")
               /\ ti' = ti
    /\ UNCHANGED <<files, head, index, tags, op, config, oldVersion, start, disk0>>

\* a slip: the error of git add is dropped and the caller goes on
GitAddUnchecked(path, out, next) ==
    /\ index' = IF out = "ok" THEN [index EXCEPT ![path] = WorkTree(path)] ELSE index
    /\ log' = Append(log, Event("git add", path, <<>>, out))
    /\ next

\* git add: the file of the work tree is staged
GitAdd(path, out, next) ==
    IF out = "ok"
    THEN /\ index' = [index EXCEPT ![path] = WorkTree(path)]
         /\ log' = Append(log, Event("git add", path, <<>>, "ok"))
         /\ next
    ELSE /\ index' = index
         /\ log' = Append(log, Event("git add", path, <<>>, "failed"))
         /\ Return(op.name, "exit status 128", <<>>, "environment")
         /\ ti' = ti

\* a slip: the error of git commit is dropped and the caller goes on
GitCommitUnchecked(message, out, next) ==
    IF out = "ok" /\ index # head
    THEN /\ head' = index
         /\ log' = Append(log, Event("git commit", message, <<>>, "ok"))
         /\ next
    ELSE /\ head' = head
         /\ log' = Append(log, Event("git commit", message, <<>>,
                                     IF out = "ok" THEN "nothing to commit" ELSE "failed"))
         /\ next

\* git commit -m: exit status 1 when nothing is staged
GitCommit(message, out, next) ==
    IF out # "ok"
    THEN /\ head' = head
         /\ log' = Append(log, Event("git commit", message, <<>>, "failed"))
         /\ Return(op.name, "exit status 128", <<>>, "environment")
         /\ ti' = ti
    ELSE IF index = head
    THEN /\ head' = head
         /\ log' = Append(log, Event("git commit", message, <<>>, "nothing to commit"))
         /\ Return(op.name, "exit status 1", <<>>, "nothing to commit")
         /\ ti' = ti
    ELSE /\ head' = index
         /\ log' = Append(log, Event("git commit", message, <<>>, "ok"))
         /\ next

WacAdd ==
    /\ pc = "wac_add"
    /\ \E out \in Outcomes :
          GitAdd(VrsConfigFileName, out, Goto("wac_commit") /\ ti' = ti)
    /\ UNCHANGED <<cfgFile, files, head, tags, op, config, oldVersion, start, disk0>>

WacCommit ==
    /\ pc = "wac_commit"
    /\ \E out \in Outcomes :
          GitCommit(op.message, out, Goto("wac_tag") /\ ti' = ti)
    /\ UNCHANGED <<cfgFile, files, index, tags, op, config, oldVersion, start, disk0>>

\* a slip: the tag named after the version the file held at the call
TagNameOld(c) == <<"v">> \o oldVersion

\* a slip: the tag named after the first part of the version alone
TagNameMajor(c) == <<"v">> \o Split(c.Version, Dot)[1]

\* "v"+config.Version
TagName(c) == <<"v">> \o c.Version

\* git tag "v"+config.Version: exit status 128 when the tag exists
WacTag ==
    /\ pc = "wac_tag"
    /\ LET name == TagName(config)
       IN  \E out \in Outcomes :
              IF out # "ok"
              THEN /\ tags' = tags
                   /\ log' = Append(log, Event("git tag", "", name, "failed"))
                   /\ Return(op.name, "exit status 128", <<>>, "environment")
                   /\ ti' = ti
              ELSE IF name \in tags
              THEN /\ tags' = tags
                   /\ log' = Append(log, Event("git tag", "", name, "tag exists"))
                   /\ Return(op.name, "exit status 128", <<>>, "tag exists")
                   /\ ti' = ti
              ELSE /\ tags' = tags \cup {name}
                   /\ log' = Append(log, Event("git tag", "", name, "ok"))
                   /\ IF op.push THEN Goto("wac_push") /\ ti' = ti
                      ELSE AfterWriteAndCommit
    /\ UNCHANGED <<cfgFile, files, head, index, op, config, oldVersion, start, disk0>>

WacPush ==
    /\ pc = "wac_push"
    /\ \E out \in Outcomes :
          IF out = "ok"
          THEN /\ log' = Append(log, Event("git push", "", <<>>, "ok"))
               /\ Goto("wac_pushtags") /\ ti' = ti
          ELSE /\ log' = Append(log, Event("git push", "", <<>>, "failed"))
               /\ Return(op.name, "exit status 128", <<>>, "environment")
               /\ ti' = ti
    /\ UNCHANGED <<cfgFile, files, head, index, tags, op, config, oldVersion,
                   start, disk0>>

WacPushTags ==
    /\ pc = "wac_pushtags"
    /\ \E out \in Outcomes :
          IF out = "ok"
          THEN /\ log' = Append(log, Event("git push --tags", "", <<>>, "ok"))
               /\ AfterWriteAndCommit
          ELSE /\ log' = Append(log, Event("git push --tags", "", <<>>, "failed"))
               /\ Return(op.name, "exit status 128", <<>>, "environment")
               /\ ti' = ti
    /\ UNCHANGED <<cfgFile, files, head, index, tags, op, config, oldVersion,
                   start, disk0>>

\* the sync target Bump's loops have reached
Target == Targets(config, op.active)[ti]

\* bumpInFile, from os.ReadFile to os.WriteFile, and its return when
\* gitCommit is false
BifRewrite ==
    /\ pc = "bif_rewrite"
    /\ LET file == Target
           read == files[file.Name]
           sub  == SubstituteFor(file, read.data, oldVersion, config.Version)
       IN  IF ~read.exists
           THEN /\ log' = Append(log, Event("read", file.Name, <<>>, "no such file"))
                /\ Return(op.name, "open: no such file or directory", <<>>, "no such file")
                /\ ti' = ti
                /\ files' = files
           ELSE IF sub.err # "nil"
           THEN /\ log' = Append(log, Event("read", file.Name, <<>>, "ok"))
                /\ Return(op.name, sub.err, <<>>, "pattern")
                /\ ti' = ti
                /\ files' = files
           ELSE \E out \in Outcomes :
                   IF out = "ok"
                   THEN /\ files' = [files EXCEPT ![file.Name] = File(sub.text)]
                        /\ log' = log \o <<Event("read", file.Name, <<>>, "ok"),
                                           Event("write", file.Name, <<>>, "ok")>>
                        /\ IF op.commit THEN Goto("bif_add") /\ ti' = ti
                           ELSE AfterBumpInFile
                   ELSE /\ \E left \in {read, File(<<>>)} :
                              files' = [files EXCEPT ![file.Name] = left]
                        /\ log' = log \o <<Event("read", file.Name, <<>>, "ok"),
                                           Event("write", file.Name, <<>>, "failed")>>
                        /\ Return(op.name, "write failed", <<>>, "environment")
                        /\ ti' = ti
    /\ UNCHANGED <<cfgFile, head, index, tags, op, config, oldVersion, start, disk0>>

\* a slip: a target is staged and left to a later commit
BifAddOnly ==
    /\ pc = "bif_add"
    /\ \E out \in Outcomes :
          GitAdd(Target.Name, out, AfterBumpInFile)
    /\ UNCHANGED <<cfgFile, files, head, tags, op, config, oldVersion, start, disk0>>

BifAdd ==
    /\ pc = "bif_add"
    /\ \E out \in Outcomes :
          GitAdd(Target.Name, out, Goto("bif_commit") /\ ti' = ti)
    /\ UNCHANGED <<cfgFile, files, head, tags, op, config, oldVersion, start, disk0>>

BifCommit ==
    /\ pc = "bif_commit"
    /\ \E out \in Outcomes :
          GitCommit("Bumped version.", out, AfterBumpInFile)
    /\ UNCHANGED <<cfgFile, files, index, tags, op, config, oldVersion, start, disk0>>

Next ==
    \/ \E o \in InitOptions : InitCall(o.commit, o.push)
    \/ \E o \in BumpOptions : BumpCall(o.commit, o.push, o.active)
    \/ ReadCurrentVersion
    \/ WacWrite
    \/ WacAdd
    \/ WacCommit
    \/ WacTag
    \/ WacPush
    \/ WacPushTags
    \/ BifRewrite
    \/ BifAdd
    \/ BifCommit

Spec == Init /\ [][Next]_vars

-----------------------------------------------------------------------------
(* Bumps over every short text: the directories hold one sync target, a    *)
(* README.md of any text up to MaxTextLen characters that is replaced by   *)
(* the old version, or a version.go that is replaced by a pattern.         *)

V123 == <<"1", ".", "2", ".", "3">>
V133 == <<"1", ".", "3", ".", "3">>
VDot1Dot == <<".", "1", ".">>
V111 == <<"1", ".", "1", ".", "1">>
PatNumber == <<"\\", "d", "+", "\\", ".", "\\", "d", "+", "\\", ".", "\\", "d", "+">>
TextGoBumped == <<"v", "e", "r", "s", "i", "o", "n", ":", " ", "1", ".", "3", ".", "3">>

\* a version whose last part regexp reads as a variable of a template
V12Dollar == <<"1", ".", "2", ".", "$", "0">>

TextAlphabet == {".", "1", "x"}

Texts == UNION {[1..n -> TextAlphabet] : n \in 0..MaxTextLen}

OneTarget(name, pattern) ==
    VrsConfig(<<>>, <<Sync(Slice(<<SyncFile(name, pattern)>>))>>, NilSlice)

TextDirs ==
    {Dir(OneTarget("README.md", <<>>), v, File(t), File(TextGo), TRUE) :
        v \in {VDot1Dot, V111}, t \in Texts}
      \cup {Dir(OneTarget("version.go", pat), V123, File(TextNone), File(TextGo), TRUE) :
               pat \in {PatVersion, PatNumber}}
      \cup {Dir(OneTarget("version.go", PatNumber), V12Dollar, File(TextNone),
                File(TextGo), TRUE)}

InitTexts == \E d \in TextDirs : StartIn(d)

NextTexts ==
    \/ BumpCall(FALSE, TRUE, <<>>)
    \/ WacWrite
    \/ BifRewrite

SpecTexts == InitTexts /\ [][NextTexts]_vars

-----------------------------------------------------------------------------
(* Bumps over version files of every shape: the documents are written out  *)
(* by hand, with each section left out, without elements, or with some.    *)

DocReadme == [name |-> "README.md", pattern |-> <<>>]

DocGo == [name |-> "version.go", pattern |-> PatNumber]

\* sync: left out; without the files key; files: []; one entry; two
DocSyncs ==
    {<<>>, <<[files |-> <<>>]>>, <<[files |-> << <<>> >>]>>,
     <<[files |-> << <<DocReadme>> >>]>>, <<[files |-> << <<DocReadme, DocGo>> >>]>>}

\* profiles: left out; []; a profile whose sync is null, has no files key,
\* has files: []; two profiles
DocProfiles ==
    {<<>>, << <<>> >>,
     << <<[name |-> "p", sync |-> <<>>]>> >>,
     << <<[name |-> "p", sync |-> <<[files |-> <<>>]>>]>> >>,
     << <<[name |-> "p", sync |-> <<[files |-> << <<>> >>]>>]>> >>,
     << <<[name |-> "p", sync |-> <<[files |-> << <<DocGo>> >>]>>],
          [name |-> "q", sync |-> <<>>]>> >>}

Docs ==
    {[malformed |-> FALSE, version |-> <<V123>>, sync |-> sy, profiles |-> pr] :
        sy \in DocSyncs, pr \in DocProfiles}

CodecDirs ==
    {[cfgFile |-> ConfigFile(doc),
      files |-> [f \in FileNames |-> File(TextGo)],
      committed |-> TRUE] : doc \in Docs}

InitCodec == \E d \in CodecDirs : StartIn(d)

NextCodec ==
    \/ InitCall(FALSE, TRUE)
    \/ \E active \in ActiveProfileLists : BumpCall(FALSE, TRUE, active)
    \/ ReadCurrentVersion
    \/ WacWrite
    \/ BifRewrite

SpecCodec == InitCodec /\ [][NextCodec]_vars

-----------------------------------------------------------------------------
(* Bumps over the active profiles: the version file has two profiles named *)
(* p with a profile q between them, and the caller names p, q, both in     *)
(* either order, p twice, or none.                                         *)

\* README.md in the sync section; p replaces each v of README.md; q
\* rewrites version.go; the second p replaces each hi of README.md
WithProfiles ==
    VrsConfig(<<>>,
              <<Sync(Slice(<<SyncFile("README.md", <<>>)>>))>>,
              Slice(<<Profile("p", <<Sync(Slice(<<SyncFile("README.md", <<"v">>)>>))>>),
                      Profile("q", <<Sync(Slice(<<SyncFile("version.go", PatNumber)>>))>>),
                      Profile("p", <<Sync(Slice(<<SyncFile("README.md", <<"h", "i">>)>>))>>)>>))

TextProfiles == <<"h", "i", " ", "v", " ", "0", ".", "1", ".", "0">>

ProfileDirs ==
    {Dir(WithProfiles, V010, File(TextProfiles), File(TextGo), TRUE)}

ProfileLists ==
    {<<>>, <<"p">>, <<"q">>, <<"p", "p">>, <<"p", "q">>, <<"q", "p">>, <<"r">>}

InitProfiles == \E d \in ProfileDirs : StartIn(d)

NextProfiles ==
    \/ \E active \in ProfileLists : BumpCall(FALSE, TRUE, active)
    \/ WacWrite
    \/ BifRewrite

SpecProfiles == InitProfiles /\ [][NextProfiles]_vars

-----------------------------------------------------------------------------
(* Bumps without commits from a directory whose README.md holds the        *)
(* version of the version file.                                            *)

InSyncDirs ==
    UNION {{Dir(OneTarget("README.md", <<>>), v, File(t), File(TextGo), TRUE) :
               t \in {x \in Texts : Contains(x, v)}} : v \in {VDot1Dot, V111}}

InitInSync == \E d \in InSyncDirs : StartIn(d)

SpecInSync == InitInSync /\ [][NextTexts]_vars

-----------------------------------------------------------------------------
(* What the claims speak of.                                               *)

Idle == pc = "idle"

\* the version a version file holds; no version for a file that is
\* missing, malformed or without the key
HasVersion(f) == f.exists /\ ~f.data.malformed /\ f.data.version # <<>>

VersionOf(f) == f.data.version[1]

DotsOf(v) == {i \in 1..Len(v) : v[i] = "."}

\* the position of the n-th dot of v; 0 before the first component and
\* Len(v) + 1 after the last
NthDot(v, n) ==
    IF n = 0 THEN 0
    ELSE IF n > Cardinality(DotsOf(v)) THEN Len(v) + 1
    ELSE CHOOSE i \in DotsOf(v) : Cardinality({j \in DotsOf(v) : j < i}) = n - 1

\* the n-th dot-separated component of v, for n up to the number of dots + 1
Component(v, n) == SubSeq(v, NthDot(v, n - 1) + 1, NthDot(v, n) - 1)

IsDecimal(s) == s # <<>> /\ \A i \in 1..Len(s) : IsDigit(s[i])

IsInteger(s) ==
    \/ IsDecimal(s)
    \/ Len(s) >= 2 /\ s[1] \in {"+", "-"} /\ IsDecimal(Tail(s))

RECURSIVE DecimalValue(_)
DecimalValue(s) ==
    IF s = <<>> THEN 0
    ELSE 10 * DecimalValue(SubSeq(s, 1, Len(s) - 1)) + DigitVal(s[Len(s)])

\* X.Y.Z with Y a non-negative decimal number
IsThreePart(v) == Cardinality(DotsOf(v)) = 2 /\ IsDecimal(Component(v, 2))

\* X.(Y+n).Z
Advanced(v, n) ==
    Component(v, 1) \o Dot \o Itoa(DecimalValue(Component(v, 2)) + n)
        \o Dot \o Component(v, 3)

\* the operation left the directory and the repository as it found them,
\* and ran no command
Untouched ==
    /\ cfgFile = start.cfgFile
    /\ files = start.files
    /\ head = start.head
    /\ tags = start.tags
    /\ log = <<>>

-----------------------------------------------------------------------------
(* C1: when the version file held X.Y.Z, Y a non-negative number and X, Z  *)
(* without dots, and the n operations run so far were all Bumps that       *)
(* returned nil, the version file holds X.(Y+n).Z: each Bump adds exactly  *)
(* one to the middle component and carries X and Z over as they were.      *)
C1_BumpIncrementsMinor ==
    (/\ Idle
     /\ hist.calls >= 1
     /\ hist.bumps = hist.calls
     /\ HasVersion(disk0)
     /\ IsThreePart(VersionOf(disk0)))
    => /\ HasVersion(cfgFile)
       /\ VersionOf(cfgFile) = Advanced(VersionOf(disk0), hist.calls)

\* 2.9.b after two Bumps: 2.11.b
C1_Witness ==
    /\ Idle
    /\ hist.calls = 2
    /\ hist.bumps = 2
    /\ VersionOf(disk0) = V29b
    /\ VersionOf(cfgFile) = <<"2", ".", "1", "1", ".", "b">>

(* C2: a Bump of a version whose second component is no integer returns    *)
(* the error of strconv.Atoi, and has left the version file, the sync      *)
(* targets and the repository as they were, without a command run.         *)
C2_NonIntegerMinorFails ==
    (/\ Idle
     /\ result.name = "Bump"
     /\ HasVersion(start.cfgFile)
     /\ Cardinality(DotsOf(VersionOf(start.cfgFile))) >= 1
     /\ ~IsInteger(Component(VersionOf(start.cfgFile), 2)))
    => /\ result.err = "strconv.Atoi: invalid syntax"
       /\ Untouched

C2_Witness ==
    /\ Idle
    /\ result.name = "Bump"
    /\ HasVersion(start.cfgFile)
    /\ VersionOf(start.cfgFile) = V1x0
    /\ result.err = "strconv.Atoi: invalid syntax"

(* C3: a Bump of a version with fewer than two dot-separated parts returns *)
(* an error to its caller, with the version file, the sync targets and the *)
(* repository as they were.  (The code reads versionParts[1] unchecked.)   *)
C3_FewerThanTwoPartsReturnsError ==
    (/\ Idle
     /\ result.name = "Bump"
     /\ start.cfgFile.exists
     /\ ~start.cfgFile.data.malformed
     /\ \/ start.cfgFile.data.version = <<>>
        \/ DotsOf(VersionOf(start.cfgFile)) = {})
    => /\ result.err \notin {"nil", "panic: index out of range"}
       /\ Untouched

(* C4: without a version file, ReadCurrentVersion and Bump return the      *)
(* sentinel NoVersioonFileFound, and have created or changed no file and   *)
(* run no command.                                                         *)
C4_NoFileIsNotFound ==
    (/\ Idle
     /\ result.name \in {"Bump", "ReadCurrentVersion"}
     /\ ~start.cfgFile.exists)
    => /\ result.err = NoVersioonFileFound
       /\ Untouched

C4_Witness ==
    /\ Idle
    /\ result.name = "Bump"
    /\ ~start.cfgFile.exists
    /\ result.err = NoVersioonFileFound
    /\ hist.prev.name = "ReadCurrentVersion"
    /\ hist.prev.err = NoVersioonFileFound

(* C5: a ReadCurrentVersion that follows an Init that returned nil returns *)
(* 0.0.0, whatever the directory held before that Init.                    *)
C5_ReadAfterInit ==
    (/\ Idle
     /\ result.name = "ReadCurrentVersion"
     /\ hist.prev.name = "Init"
     /\ hist.prev.err = "nil")
    => /\ result.err = "nil"
       /\ result.value = V000

\* a Bump of 0.1.0, then Init, then ReadCurrentVersion
C5_Witness ==
    /\ Idle
    /\ result.name = "ReadCurrentVersion"
    /\ hist.prev.name = "Init"
    /\ hist.prev.err = "nil"
    /\ hist.bumps = 1
    /\ hist.calls = 3
    /\ VersionOf(disk0) = V010
    /\ result.value = V000

\* the places of s where v starts
Occ(s, v) == {i \in 1..Len(s) : HasPrefixAt(s, i, v)}

\* the occurrences of v a scan of s from the left finds when it goes on
\* after the end of each one it finds: no two of them overlap, and every
\* other occurrence overlaps an earlier one of them
LeftmostOcc(s, v) ==
    CHOOSE P \in SUBSET Occ(s, v) :
        /\ \A p, q \in P : p < q => p + Len(v) <= q
        /\ \A q \in Occ(s, v) \ P : \E p \in P : p < q /\ q < p + Len(v)

\* s with new in the place of the m characters at each place of P; a
\* character is kept if and only if it belongs to none of these stretches
RECURSIVE SpliceFrom(_, _, _, _, _)
SpliceFrom(s, P, m, new, i) ==
    IF i > Len(s) THEN <<>>
    ELSE (IF i \in P THEN new
          ELSE IF \E p \in P : p < i /\ i < p + m THEN <<>>
          ELSE <<s[i]>>) \o SpliceFrom(s, P, m, new, i + 1)

Splice(s, P, m, new) == SpliceFrom(s, P, m, new, 1)

\* where the new strings stand in Splice(s, P, m, new) for P without overlaps
InsertedAt(P, m, new) ==
    {p + Cardinality({q \in P : q < p}) * (Len(new) - m) : p \in P}

\* the last call was a Bump that returned nil
Bumped == Idle /\ result.name = "Bump" /\ result.err = "nil"

\* the names of the targets of the last Bump that it replaced by the old
\* version and that it rewrote once
LiteralTargets ==
    LET ts == Targets(config, op.active)
    IN  {f \in FileNames :
            /\ Cardinality({i \in 1..Len(ts) : ts[i].Name = f}) = 1
            /\ \A i \in 1..Len(ts) : ts[i].Name = f => ts[i].Pattern = <<>>}

\* those among them that the sync section outside the profiles names
GlobalLiteralTargets ==
    {f \in LiteralTargets :
        \E i \in 1..Len(SyncFiles(config.Sync)) : SyncFiles(config.Sync)[i].Name = f}

\* the text of the target f before the last call, and after it
Before(f) == start.files[f].data

After(f) == files[f].data

(* C6: as the claim has it: after a Bump that returned nil, a target that   *)
(* is replaced by the old version holds its former text with the new       *)
(* version in the place of every occurrence of the old version, and every  *)
(* character outside these occurrences as it was.                          *)
C6_EveryOccurrenceReplaced ==
    Bumped =>
       \A f \in LiteralTargets :
          After(f) = Splice(Before(f), Occ(Before(f), VersionOf(start.cfgFile)),
                            Len(VersionOf(start.cfgFile)), VersionOf(cfgFile))

(* C6: after a Bump that returned nil, a target that is replaced by the    *)
(* old version holds its former text with the new version in the place of  *)
(* every occurrence of the old version that a scan from the left finds     *)
(* when it goes on after the end of each occurrence it finds; an           *)
(* occurrence that overlaps an earlier replaced one is not replaced, and   *)
(* every character outside the replaced occurrences is as it was.          *)
C6_LeftmostOccurrencesReplaced ==
    Bumped =>
       \A f \in LiteralTargets :
          After(f) = Splice(Before(f), LeftmostOcc(Before(f), VersionOf(start.cfgFile)),
                            Len(VersionOf(start.cfgFile)), VersionOf(cfgFile))

\* x.1.1. becomes x.2.1. : the first occurrence replaced, x as it was, and
\* the second occurrence, which overlaps the first, not replaced
C6_Witness ==
    /\ Bumped
    /\ "README.md" \in LiteralTargets
    /\ VersionOf(start.cfgFile) = VDot1Dot
    /\ Before("README.md") = <<"x", ".", "1", ".", "1", ".">>
    /\ After("README.md") = <<"x", ".", "2", ".", "1", ".">>

\* the target the last call came to last, when it came to one
LastTarget == Targets(config, op.active)[ti]

(* C7: as the claim has it: when a Bump has come to a target that is       *)
(* replaced by the old version, that it has not rewritten before and that  *)
(* does not hold the old version, and the disk and git have not failed,    *)
(* the target is as it was and the Bump has not returned an error for it,  *)
(* with commits or without.                                                *)
C7_AbsentVersionIsNoOp ==
    (/\ Idle
     /\ result.name = "Bump"
     /\ ti >= 1
     /\ LastTarget.Pattern = <<>>
     /\ \A j \in 1..(ti - 1) : Targets(config, op.active)[j].Name # LastTarget.Name
     /\ start.files[LastTarget.Name].exists
     /\ ~Contains(Before(LastTarget.Name), oldVersion)
     /\ result.cause # "environment")
    => /\ files[LastTarget.Name] = start.files[LastTarget.Name]
       /\ result.err = "nil"

(* C8: as the claim has it: after a Bump from V to V' that returned nil,   *)
(* the version file holds V', and every target of the sync section that    *)
(* is replaced by the old version and that held V holds V' and no V.       *)
C8_NoOldVersionLeft ==
    (Bumped /\ IsThreePart(VersionOf(start.cfgFile))) =>
       /\ HasVersion(cfgFile)
       /\ VersionOf(cfgFile) = Advanced(VersionOf(start.cfgFile), 1)
       /\ \A f \in GlobalLiteralTargets :
             Contains(Before(f), VersionOf(start.cfgFile)) =>
                /\ Contains(After(f), VersionOf(cfgFile))
                /\ ~Contains(After(f), VersionOf(start.cfgFile))

(* C8: after a Bump from V to V' that returned nil, the version file holds *)
(* V', and every target of the sync section that is replaced by the old    *)
(* version, that no other entry rewrites and that held V holds V'; an      *)
(* occurrence of V that it still holds shares a character with a V' that   *)
(* the Bump put in: it overlapped a replaced occurrence, or the V' forms   *)
(* it with the characters around it.                                       *)
C8_BumpedEverywhere ==
    (Bumped /\ IsThreePart(VersionOf(start.cfgFile))) =>
       /\ HasVersion(cfgFile)
       /\ VersionOf(cfgFile) = Advanced(VersionOf(start.cfgFile), 1)
       /\ \A f \in GlobalLiteralTargets :
             LET V   == VersionOf(start.cfgFile)
                 new == VersionOf(cfgFile)
                 ins == InsertedAt(LeftmostOcc(Before(f), V), Len(V), new)
             IN  Contains(Before(f), V) =>
                    /\ Contains(After(f), new)
                    /\ \A i \in ins : HasPrefixAt(After(f), i, new)
                    /\ \A q \in Occ(After(f), V) :
                          \E i \in ins : q < i + Len(new) /\ i < q + Len(V)

\* x1.1.1 becomes x1.2.1 and holds no 1.1.1 any more
C8_Witness ==
    /\ Bumped
    /\ "README.md" \in GlobalLiteralTargets
    /\ VersionOf(start.cfgFile) = V111
    /\ Before("README.md") = <<"x", "1", ".", "1", ".", "1">>
    /\ Contains(After("README.md"), <<"1", ".", "2", ".", "1">>)
    /\ ~Contains(After("README.md"), V111)
    /\ VersionOf(cfgFile) = <<"1", ".", "2", ".", "1">>

\* the pattern of the only target of the last Bump
OnlyPattern == Targets(config, op.active)[1].Pattern

\* the last call was a Bump from 1.2.3 to 1.3.3 that returned nil, with
\* version.go, which held version: 1.2.3, as its only target
BumpedGo ==
    /\ Bumped
    /\ Len(Targets(config, op.active)) = 1
    /\ Targets(config, op.active)[1].Name = "version.go"
    /\ VersionOf(start.cfgFile) = V123
    /\ VersionOf(cfgFile) = V133
    /\ Before("version.go") = TextGo

(* C9: as the claim has it: a Bump to 1.3.3 that replaces by the pattern   *)
(* version: \d+\.\d+\.\d+ turns version: 1.2.3 into version: 1.3.3.        *)
C9_PrefixOfMatchKept ==
    (BumpedGo /\ OnlyPattern = PatVersion) => After("version.go") = TextGoBumped

(* C9: a Bump that replaces by a pattern puts the new version in the place *)
(* of the whole match, so the text of a match that is not the version      *)
(* number is lost: a Bump to 1.3.3 with the pattern version: \d+\.\d+\.\d+ *)
(* turns version: 1.2.3 into 1.3.3, and with the pattern \d+\.\d+\.\d+,    *)
(* which matches the number alone, into version: 1.3.3.                    *)
C9_WholeMatchReplaced ==
    BumpedGo =>
       /\ OnlyPattern = PatVersion => After("version.go") = V133
       /\ OnlyPattern = PatNumber => After("version.go") = TextGoBumped

C9_Witness ==
    /\ BumpedGo
    /\ OnlyPattern = PatVersion
    /\ After("version.go") = V133

\* the last call has written config to the version file
Written ==
    /\ op.name \in {"Init", "Bump"}
    /\ log # <<>>
    /\ log[1] = Event("write", VrsConfigFileName, <<>>, "ok")

\* what ParseVersioonConfig makes of the version file as it is now
Reloaded == ParseVersioonConfig(cfgFile)

\* a Sync pointer without the difference between a nil file list and a
\* file list without elements
SyncEntries(sync) == IF sync = <<>> THEN <<>> ELSE <<sync[1].Files.items>>

\* a configuration without the difference between nil and no element
Entries(c) ==
    [Version  |-> c.Version,
     Sync     |-> SyncEntries(c.Sync),
     Profiles |-> [i \in 1..Len(c.Profiles.items) |->
                     [Name |-> c.Profiles.items[i].Name,
                      Sync |-> SyncEntries(c.Profiles.items[i].Sync)]]]

(* C10: as the claim has it: once a call has written its configuration to  *)
(* the version file, ParseVersioonConfig returns a configuration equal to  *)
(* it in every field.                                                      *)
C10_RoundTripEqual ==
    Written => /\ Reloaded.err = "nil"
               /\ Reloaded.config = config

(* C10: once a call has written its configuration to the version file,     *)
(* ParseVersioonConfig returns a configuration with the same version, the  *)
(* same sync section (absent when it was absent, else with the same file   *)
(* entries) and the same profiles (names and sync sections), except that   *)
(* a list without elements is not kept as it was: a file list comes back   *)
(* as a list that is not nil, a nil one as an empty one, and a profile     *)
(* list without elements comes back as nil.                                *)
C10_RoundTripUpToNil ==
    Written =>
       /\ Reloaded.err = "nil"
       /\ Entries(Reloaded.config) = Entries(config)
       /\ Reloaded.config.Profiles.nil <=> config.Profiles.items = <<>>
       /\ Reloaded.config.Sync # <<>> => ~Reloaded.config.Sync[1].Files.nil
       /\ \A i \in 1..Len(Reloaded.config.Profiles.items) :
             LET sync == Reloaded.config.Profiles.items[i].Sync
             IN  sync # <<>> => ~sync[1].Files.nil

\* a Bump has written a configuration with a sync section whose file list
\* is nil and a profile list without elements that is not nil
C10_Witness ==
    /\ Written
    /\ op.name = "Bump"
    /\ config.Version = V133
    /\ config.Sync = <<Sync(NilSlice)>>
    /\ config.Profiles = Slice(<<>>)
    /\ Reloaded.config = VrsConfig(V133, <<Sync(Slice(<<>>))>>, NilSlice)

-----------------------------------------------------------------------------
(* The commands of a call, as the log holds them.                          *)

\* a command without its exit
Cmd(e) == <<e.cmd, e.arg, e.text>>

\* the version a Bump of the version file of the call writes
NewVersion == Advanced(VersionOf(start.cfgFile), 1)

\* the write of the version file and the commands on it that a Bump with
\* commits runs when none fails: how many, and the i-th of them
ConfigCommitLen == IF op.push THEN 6 ELSE 4

ConfigCommitStep(i) ==
    CASE i = 1 -> <<"write", VrsConfigFileName, <<>>>>
      [] i = 2 -> <<"git add", VrsConfigFileName, <<>>>>
      [] i = 3 -> <<"git commit", "Version bump.", <<>>>>
      [] i = 4 -> <<"git tag", "", <<"v">> \o NewVersion>>
      [] i = 5 -> <<"git push", "", <<>>>>
      [] i = 6 -> <<"git push --tags", "", <<>>>>

\* a Bump with commits is running or was the last call, and it has come
\* to write the version file
InBumpWithCommits == op.name = "Bump" /\ op.commit /\ log # <<>>

\* the places of the log that hold a command of git on the repository as
\* a whole or on the version file
ConfigCommands ==
    {i \in 1..Len(log) :
        \/ log[i].cmd \in {"git tag", "git push", "git push --tags"}
        \/ log[i].arg = VrsConfigFileName
        \/ log[i].cmd = "git commit" /\ log[i].arg = "Version bump."}

(* C11: in a Bump with commits, the log begins with the write of the       *)
(* version file, git add of it, git commit Version bump., git tag of v and *)
(* the version after the increment, and with pushes git push and git push  *)
(* --tags, in this order and each only after the one before it returned    *)
(* without error; none of these is run again later or without pushes, and  *)
(* from the first command on the version file holds the new version.       *)
C11_ConfigCommitOrder ==
    InBumpWithCommits =>
       /\ \A i \in 1..Len(log) :
             i <= ConfigCommitLen =>
                /\ Cmd(log[i]) = ConfigCommitStep(i)
                /\ i < Len(log) => log[i].exit = "ok"
       /\ ConfigCommands \subseteq 1..ConfigCommitLen
       /\ Len(log) >= 2 =>
             /\ HasVersion(cfgFile)
             /\ VersionOf(cfgFile) = NewVersion
             /\ NewVersion # VersionOf(start.cfgFile)

\* a Bump of 2.9.b with commits and pushes that has run all five commands
C11_Witness ==
    /\ InBumpWithCommits
    /\ op.push
    /\ VersionOf(start.cfgFile) = V29b
    /\ Len(log) >= 6
    /\ log[4] = Event("git tag", "", <<"v", "2", ".", "1", "0", ".", "b">>, "ok")
    /\ log[6] = Event("git push --tags", "", <<>>, "ok")

\* the places of the log where a sync target is read, written, staged or
\* committed
SyncEvents ==
    {i \in 1..Len(log) :
        \/ log[i].cmd \in {"read", "write", "git add"} /\ log[i].arg \in FileNames
        \/ log[i].cmd = "git commit" /\ log[i].arg = "Bumped version."}

\* the places of the log where git tag returned without error
TagEvents == {i \in 1..Len(log) : log[i].cmd = "git tag" /\ log[i].exit = "ok"}

\* the step of the log at i is cmd on the target f, and it went well
Did(i, cmd, f) == i >= 1 /\ log[i] = Event(cmd, f, <<>>, "ok")

(* C12: in a Bump with commits, no sync target is read, written, staged or *)
(* committed before git tag has returned without error, and while the      *)
(* version file is committed and tagged the targets are as the call found  *)
(* them, so the tagged commit holds no change of this Bump to a target; a  *)
(* target that was written is staged next, and then committed next with    *)
(* Bumped version.; such a commit comes right after the read, the write    *)
(* and the staging of one target, and only that target is staged.          *)
C12_TagBeforeSyncCommits ==
    InBumpWithCommits =>
       /\ \A i \in SyncEvents : \E t \in TagEvents : t < i
       /\ pc \in {"wac_add", "wac_commit", "wac_tag", "wac_push", "wac_pushtags"}
             => files = start.files
       /\ \A i \in SyncEvents :
             /\ (log[i].cmd = "write" /\ log[i].exit = "ok" /\ i < Len(log))
                   => Cmd(log[i + 1]) = <<"git add", log[i].arg, <<>>>>
             /\ (log[i].cmd = "git add" /\ log[i].exit = "ok" /\ i < Len(log))
                   => Cmd(log[i + 1]) = <<"git commit", "Bumped version.", <<>>>>
             /\ log[i].cmd = "git commit"
                   => \E f \in FileNames :
                         /\ Did(i - 1, "git add", f)
                         /\ Did(i - 2, "write", f)
                         /\ Did(i - 3, "read", f)
       /\ pc = "bif_commit" =>
             \A p \in Paths \ {Target.Name} : index[p] = head[p]

\* two targets committed one after the other, after the tag
C12_Witness ==
    /\ InBumpWithCommits
    /\ ~op.push
    /\ Len(log) >= 12
    /\ log[4].cmd = "git tag"
    /\ log[8] = Event("git commit", "Bumped version.", <<>>, "ok")
    /\ log[7].arg = "README.md"
    /\ log[12] = Event("git commit", "Bumped version.", <<>>, "ok")
    /\ log[11].arg = "version.go"

\* the places of the log where a command on the version file or on the
\* repository as a whole failed
FailedConfigCommands == {i \in ConfigCommands : i >= 2 /\ log[i].exit # "ok"}

(* C13: when a Bump with commits has returned after git add of the version *)
(* file, git commit, git tag, git push or git push --tags failed, the      *)
(* failed command is the last one it ran, it returned an error, no sync    *)
(* target was read or written, the version file holds the new version, and *)
(* what the commands before did is still there: the version file is staged *)
(* after git add, committed after git commit, the tag exists after git tag.*)
C13_ConfigCommitFailureAborts ==
    (Idle /\ InBumpWithCommits /\ FailedConfigCommands # {}) =>
       /\ FailedConfigCommands = {Len(log)}
       /\ result.name = "Bump"
       /\ result.err \in {"exit status 1", "exit status 128"}
       /\ SyncEvents = {}
       /\ files = start.files
       /\ HasVersion(cfgFile) /\ VersionOf(cfgFile) = NewVersion
       /\ Len(log) > 2 => index[VrsConfigFileName] = cfgFile
       /\ Len(log) > 3 => head[VrsConfigFileName] = cfgFile
       /\ Len(log) > 4 => (<<"v">> \o NewVersion) \in tags
       /\ tags \ start.tags \subseteq {<<"v">> \o NewVersion}
       /\ start.tags \subseteq tags

\* git push --tags failed: the commit and the tag are there
C13_Witness ==
    /\ Idle
    /\ InBumpWithCommits
    /\ Len(log) = 6
    /\ log[6] = Event("git push --tags", "", <<>>, "failed")
    /\ result.err = "exit status 128"
    /\ VersionOf(start.cfgFile) = V010
    /\ <<"v", "0", ".", "2", ".", "0">> \in tags
    /\ head[VrsConfigFileName] = cfgFile
    /\ files = start.files

-----------------------------------------------------------------------------
(* The sync targets of a call, from the version file as the call found it. *)

\* the files of the sync sections in syncs, one section after the other
RECURSIVE FilesOf(_)
FilesOf(syncs) ==
    IF syncs = <<>> THEN <<>>
    ELSE (IF Head(syncs) = <<>> THEN <<>> ELSE Head(syncs)[1].Files.items)
            \o FilesOf(Tail(syncs))

\* the sync sections of the profiles of c whose name is in active
ActiveSyncs(c, active) ==
    LET on == {i \in 1..Len(c.Profiles.items) :
                  \E a \in 1..Len(active) : active[a] = c.Profiles.items[i].Name}
        nth(n) == CHOOSE i \in on : Cardinality({x \in on : x < i}) = n - 1
    IN  [n \in 1..Cardinality(on) |-> c.Profiles.items[nth(n)].Sync]

\* the files of the sync section of c, then those of its active profiles
ExpectedTargets(c, active) == FilesOf(<<c.Sync>>) \o FilesOf(ActiveSyncs(c, active))

StartTargets == ExpectedTargets(ParseVersioonConfig(start.cfgFile).config, op.active)

\* the text of f after the first j targets are rewritten
RECURSIVE Applied(_, _)
Applied(f, j) ==
    IF j = 0 THEN start.files[f].data
    ELSE IF StartTargets[j].Name # f THEN Applied(f, j - 1)
    ELSE SubstituteFor(StartTargets[j], Applied(f, j - 1),
                       VersionOf(start.cfgFile), NewVersion).text

\* f as the first j targets leave it
AppliedFile(f, j) ==
    IF \E i \in 1..j : StartTargets[i].Name = f THEN File(Applied(f, j))
    ELSE start.files[f]

\* the places of the log where a sync target is read, and the j-th of them
Reads == {i \in SyncEvents : log[i].cmd = "read"}

ReadAt(j) == CHOOSE i \in Reads : Cardinality({x \in Reads : x < i}) = j - 1

\* what bumpInFile logs for a target when nothing fails
StepsPerTarget == IF op.commit THEN 4 ELSE 2

\* the last call was a Bump that returned an error from a sync target
FailedInSync ==
    /\ Idle
    /\ result.name = "Bump"
    /\ result.err # "nil"
    /\ Reads # {}

(* C14: when a Bump has returned an error from its k-th target, whichever  *)
(* of read, compile, write, git add and git commit failed: the log holds   *)
(* the steps of the targets 1..k in their order, complete and without      *)
(* error for 1..k-1, and ends with the failed step of the k-th; every file *)
(* but that of the k-th target is as the targets 1..k-1 leave it, so the   *)
(* later targets are not rewritten; with commits, the files of the targets *)
(* 1..k-1 are committed that way; the file of the k-th target is as it was *)
(* before its step, or as its step leaves it, or cut short by the failed   *)
(* write; and the version file holds the new version.                      *)
C14_TargetFailureAborts ==
    FailedInSync =>
       LET k == Cardinality(Reads)
           f == StartTargets[k].Name
           last == ReadAt(k)
       IN  /\ k <= Len(StartTargets)
           /\ \A j \in 1..k : log[ReadAt(j)].arg = StartTargets[j].Name
           /\ \A j \in 1..(k - 1) :
                 /\ ReadAt(j + 1) = ReadAt(j) + StepsPerTarget
                 /\ \A i \in ReadAt(j)..(ReadAt(j + 1) - 1) : log[i].exit = "ok"
           /\ Len(log) < last + StepsPerTarget
           /\ \A i \in last..(Len(log) - 1) : log[i].exit = "ok"
           /\ log[Len(log)].exit # "ok" \/ result.cause = "pattern"
           /\ \A g \in FileNames \ {f} : files[g] = AppliedFile(g, k - 1)
           /\ files[f] \in {AppliedFile(f, k - 1), AppliedFile(f, k), File(<<>>)}
           /\ Len(log) = last => files[f] = AppliedFile(f, k - 1)
           /\ Len(log) > last + 1 => files[f] = AppliedFile(f, k)
           /\ op.commit =>
                 \A j \in 1..(k - 1) :
                    head[StartTargets[j].Name] = AppliedFile(StartTargets[j].Name, k - 1)
           /\ HasVersion(cfgFile) /\ VersionOf(cfgFile) = NewVersion

\* the pattern of the second of three targets does not compile: the first
\* is rewritten and committed, the third, which would replace each v of
\* README.md, is not rewritten
C14_Witness ==
    /\ FailedInSync
    /\ op.commit
    /\ op.active = <<"p">>
    /\ Len(StartTargets) = 3
    /\ Cardinality(Reads) = 2
    /\ result.err = "error parsing regexp"
    /\ start.files["README.md"].data = TextTwice
    /\ files["README.md"].data = <<"v", "0", ".", "2", ".", "0", " ", "0", ".", "2", ".", "0">>
    /\ head["README.md"] = files["README.md"]
    /\ files["version.go"] = start.files["version.go"]

-----------------------------------------------------------------------------
\* s from i on with new, as it stands, in the place of every match of prog
RECURSIVE ReplaceLiterally(_, _, _, _)
ReplaceLiterally(prog, s, i, new) ==
    LET j == FindFrom(prog, s, i)
    IN  IF j = 0 THEN From(s, i)
        ELSE LET e == MatchHere(prog, 1, s, j)
             IN  IF e > j
                 THEN SubSeq(s, i, j - 1) \o new \o ReplaceLiterally(prog, s, e, new)
                 ELSE SubSeq(s, i, j - 1) \o new
                         \o (IF j <= Len(s)
                             THEN <<s[j]>> \o ReplaceLiterally(prog, s, j + 1, new)
                             ELSE <<>>)

(* C15: as the claim has it: after a Bump that returned nil, its only      *)
(* target, when it has a pattern, holds its former text with the new       *)
(* version, character for character, in the place of every match of the    *)
(* pattern and everything else as it was, the old version outside the      *)
(* matches too; when it has no pattern, its former text with the old       *)
(* version replaced.                                                       *)
C15_PatternInsertsLiterally ==
    (Bumped /\ Len(StartTargets) = 1) =>
       LET t == StartTargets[1]
       IN  IF t.Pattern # <<>>
           THEN /\ Compile(t.Pattern).ok
                /\ After(t.Name) = ReplaceLiterally(Compile(t.Pattern).prog,
                                                    Before(t.Name), 1, VersionOf(cfgFile))
           ELSE After(t.Name) = ReplaceAll(Before(t.Name), VersionOf(start.cfgFile),
                                           VersionOf(cfgFile))

(* C16: when a Bump has returned nil, it has read and written, in this     *)
(* order and each once, the files of the sync section and then, in the     *)
(* order of the version file, the files of every profile whose name is     *)
(* somewhere in the list of active profiles, once however often the name   *)
(* is there and each of two profiles with the same name; every file is as  *)
(* these targets leave it, so a file that only other profiles name is as   *)
(* it was, and nothing else was read or written.                           *)
C16_TargetsProcessed ==
    Bumped =>
       /\ Cardinality(Reads) = Len(StartTargets)
       /\ Cardinality(SyncEvents) = StepsPerTarget * Len(StartTargets)
       /\ \A j \in 1..Len(StartTargets) :
             /\ log[ReadAt(j)] = Event("read", StartTargets[j].Name, <<>>, "ok")
             /\ log[ReadAt(j) + 1] = Event("write", StartTargets[j].Name, <<>>, "ok")
       /\ \A f \in FileNames : files[f] = AppliedFile(f, Len(StartTargets))

\* the caller names p twice: README.md is rewritten three times, for the
\* sync section and for each of the two profiles p, and version.go, that q
\* names, is as it was
C16_Witness ==
    /\ Bumped
    /\ op.active = <<"p", "p">>
    /\ start.files["README.md"].data = TextProfiles
    /\ Cardinality(Reads) = 3
    /\ files["README.md"].data =
          <<"0", ".", "2", ".", "0", " ", "0", ".", "2", ".", "0", " ", "0", ".", "2", ".", "0">>
    /\ files["version.go"] = start.files["version.go"]

\* the places of the log where git push or git push --tags is run
PushEvents == {i \in 1..Len(log) : log[i].cmd \in {"git push", "git push --tags"}}

\* the places of the log where a sync target is committed
SyncCommits ==
    {i \in 1..Len(log) : log[i].cmd = "git commit" /\ log[i].arg = "Bumped version."}

(* C17: in a Bump, every git push and git push --tags is run before every  *)
(* commit of a sync target, and before every read and write of one; while  *)
(* the pushes run the targets are as the call found them and the last      *)
(* commit is the one of the version file, so what a Bump with commits and  *)
(* pushes that returned nil has pushed was made before its first commit of *)
(* a target, and each of these commits came after the last push.           *)
C17_PushesBeforeSyncCommits ==
    (op.name = "Bump" /\ log # <<>>) =>
       /\ \A i \in PushEvents : \A j \in SyncCommits \cup SyncEvents : i < j
       /\ PushEvents # {} => op.commit /\ op.push
       /\ pc \in {"wac_push", "wac_pushtags"} =>
             /\ SyncEvents = {}
             /\ files = start.files
             /\ log[3] = Event("git commit", "Version bump.", <<>>, "ok")
             /\ head[VrsConfigFileName] = cfgFile
             /\ (<<"v">> \o NewVersion) \in tags
       /\ (Bumped /\ op.commit /\ op.push) =>
             /\ Cardinality(PushEvents) = 2
             /\ Cardinality(SyncCommits) = Len(StartTargets)
             /\ \A j \in SyncCommits : j > 6

\* a Bump with commits and pushes that has committed two targets
C17_Witness ==
    /\ Bumped
    /\ op.commit
    /\ op.push
    /\ Len(log) = 14
    /\ PushEvents = {5, 6}
    /\ SyncCommits = {10, 14}
    /\ head["README.md"] = files["README.md"]
    /\ head["README.md"] # start.head["README.md"]

-----------------------------------------------------------------------------
\* the files the sync section of the version file, as the call found it,
\* names without a pattern
GlobalLiterals ==
    LET fs == SyncFiles(ParseVersioonConfig(start.cfgFile).config.Sync)
    IN  {fs[i].Name : i \in {j \in 1..Len(fs) : fs[j].Pattern = <<>>}}

\* every one of them held the version of the version file at the call
InSyncBefore ==
    \A f \in GlobalLiterals :
       start.files[f].exists /\ Contains(Before(f), VersionOf(start.cfgFile))

\* every one of them holds the version of the version file
InSyncNow ==
    /\ HasVersion(cfgFile)
    /\ \A f \in GlobalLiterals : files[f].exists /\ Contains(After(f), VersionOf(cfgFile))

(* C18: as the claim has it: from a directory where every target that the  *)
(* sync section names without a pattern holds the version, and after Bumps *)
(* without commits of which any may have failed, every such target holds   *)
(* the version of the version file whenever the last Bump returned nil.    *)
C18_InSyncAfterAnyBumps ==
    (Bumped /\ ~op.commit) => InSyncNow

(* C18: when a Bump without commits has returned nil and every target that *)
(* the sync section names without a pattern held the version at the call,  *)
(* every such target holds the new version; so they hold the version after *)
(* Bumps without commits that all returned nil.  A Bump that fails after   *)
(* it has written the version file leaves a target behind, and a later     *)
(* Bump that returns nil does not bring it up to the version.              *)
C18_InSyncKeptBySuccess ==
    /\ (Bumped /\ ~op.commit /\ InSyncBefore) => InSyncNow
    /\ (Bumped /\ ~op.commit /\ hist.bumps = hist.calls) => InSyncNow

\* two Bumps that returned nil: x.1. is x.3.
C18_Witness ==
    /\ Bumped
    /\ ~op.commit
    /\ hist.bumps = 2
    /\ hist.calls = 2
    /\ VersionOf(disk0) = VDot1Dot
    /\ InSyncBefore
    /\ After("README.md") = <<"x", ".", "3", ".">>
    /\ Contains(After("README.md"), VersionOf(cfgFile))

-----------------------------------------------------------------------------
\* git tag is the next command
AtTagStep == pc = "wac_tag"

\* no Init has been called after another call, the running call included
InitOnlyFirst == ~hist.reinit /\ ~(op.name = "Init" /\ hist.calls >= 1)

(* C19: as the claim has it: whenever an Init or a Bump comes to git tag,  *)
(* no earlier call has created the tag that it names.                      *)
C19_TagsNeverCollide == AtTagStep => TagName(config) \notin tags

(* C19: whenever an Init or a Bump comes to git tag in a run where Init is *)
(* called as the first call or not at all, no earlier call has created the *)
(* tag that it names.  An Init that is called later writes 0.0.0 again:    *)
(* its own tag, or the tag of a Bump after it, can be one that exists.     *)
C19_TagsNewWithoutLaterInit ==
    (AtTagStep /\ InitOnlyFirst) => TagName(config) \notin tags

\* Init, Bump, and a second Bump at git tag: v0.0.0 and v0.1.0 exist, and
\* v0.2.0 is new
C19_Witness ==
    /\ AtTagStep
    /\ InitOnlyFirst
    /\ op.name = "Bump"
    /\ hist.calls = 2
    /\ tags = {<<"v", "0", ".", "0", ".", "0">>, <<"v", "0", ".", "1", ".", "0">>}
    /\ TagName(config) = <<"v", "0", ".", "2", ".", "0">>

-----------------------------------------------------------------------------
\* the places of the log where a command of git is run
GitEvents ==
    {i \in 1..Len(log) :
        log[i].cmd \in {"git add", "git commit", "git tag", "git push", "git push --tags"}}

(* C20: an Init or a Bump without commits runs no command of git, with     *)
(* pushes too: it only writes the version file and reads and writes sync   *)
(* targets, and the commits and the tags of the repository are as the call *)
(* found them; a git push or git push --tags is only run in a call with    *)
(* commits and pushes, after a git tag of that call that returned without  *)
(* error.                                                                  *)
C20_NoGitWithoutCommit ==
    /\ (op.name \in {"Init", "Bump"} /\ ~op.commit) =>
          /\ GitEvents = {}
          /\ \A i \in 1..Len(log) : log[i].cmd \in {"read", "write"}
          /\ head = start.head
          /\ tags = start.tags
          /\ pc \in {"idle", "wac_write", "bif_rewrite"}
    /\ \A i \in PushEvents :
          /\ op.commit /\ op.push
          /\ \E t \in TagEvents : t < i

\* a Bump without commits, with pushes, that has rewritten two targets
C20_Witness ==
    /\ Bumped
    /\ ~op.commit
    /\ op.push
    /\ Len(log) = 5
    /\ GitEvents = {}
    /\ files["README.md"] # start.files["README.md"]
    /\ cfgFile # start.cfgFile

====
